---- MODULE Spec2Model ----
(***************************************************************************)
(* A model of ConditionManager                                             *)
(* (scripts/visibility/auto-visibility/ConditionManager.js): the four      *)
(* condition probes, the invisibility state resolver, and the bookkeeping  *)
(* of the per-token 'pf2e-visioner'.invisibility flag namespace.           *)
(*                                                                         *)
(* Host values are modelled by what the code can observe of them:          *)
(*   - an accessor path of an actor is "absent" (optional chaining yields  *)
(*     undefined), "false", "true", or "throws" (the call raises);         *)
(*   - a token's flag namespace is [set |-> FALSE] (absent) or             *)
(*     [set |-> TRUE, entries |-> (observer id -> wasVisible)];            *)
(*   - a visibility map maps observer ids to a state or to "absent".       *)
(***************************************************************************)
EXTENDS Naturals, Sequences, FiniteSets, TLC

VARIABLES
    cond,      \* actor id -> the actor's accessors for the 'invisible' condition
    flags,     \* token id -> the token document's invisibility flag namespace
    last,      \* the last completed operation: its arguments and what it did
    probeIn,   \* the arguments of the condition probes (SpecProbe)
    probeOut,  \* the probes' results (SpecProbe)
    runs,      \* overlapping handleInvisibilityChange runs (SpecOverlap)
    queue,     \* flag updates issued to the host and not yet applied (SpecOverlap)
    changes    \* number of condition changes so far (SpecOverlap)

vars == <<cond, flags, last, probeIn, probeOut, runs, queue, changes>>

----------------------------------------------------------------------------
(* The scene: canvas.tokens.placeables and each token's bound actor.       *)

Tokens == {"t1", "t2", "t3", "t4"}

Actors == {"a1", "a2"}

NoActor == "none"

\* token.actor?.id : t1 and t2 are two placements of a1, t4 has no actor.
ActorOf(t) ==
    CASE t = "t1" -> "a1"
      [] t = "t2" -> "a1"
      [] t = "t3" -> "a2"
      [] OTHER -> NoActor

\* A token reference with no document id (observer?.document?.id undefined).
NoToken == "none"

----------------------------------------------------------------------------
(* Accessor paths of an actor for one condition name.                      *)

Truthy(v) == v = "true"

AllAbsent == [hc |-> "absent", sys |-> "absent", has |-> "absent", coll |-> "absent"]

\* What the four accessor paths of `actor` answer for condition `name`:
\* actor.hasCondition?.(name), actor.system?.conditions?.[name]?.active,
\* actor.conditions?.has?.(name), actor.conditions.some(slug/key = name).
Accessors(actor, name) == IF actor.cond = name THEN actor.acc ELSE AllAbsent

\* The try/catch around conditions.some(...): a throw leaves the initial false.
conditionsCollectionHas(acc) == acc.coll = "true"

\* The three eagerly evaluated const initialisers: a throwing call propagates.
EagerThrows(acc) == acc.hc = "throws" \/ acc.has = "throws"

AnyTruthy(acc) ==
    Truthy(acc.hc) \/ Truthy(acc.sys) \/ Truthy(acc.has) \/ conditionsCollectionHas(acc)

ToStr(b) == IF b THEN "true" ELSE "false"

\* isBlinded with the collection scan outside any try block.
isBlinded_noCatch(observer) ==
    LET acc == Accessors(observer.actor, "blinded") IN
    IF EagerThrows(acc) \/ acc.coll = "throws" THEN "throws" ELSE ToStr(AnyTruthy(acc))

isBlinded(observer) ==
    LET acc == Accessors(observer.actor, "blinded") IN
    IF EagerThrows(acc) THEN "throws" ELSE ToStr(AnyTruthy(acc))

isDazzled(observer) ==
    LET acc == Accessors(observer.actor, "dazzled") IN
    IF EagerThrows(acc) THEN "throws" ELSE ToStr(AnyTruthy(acc))

isDeafened(observer) ==
    LET acc == Accessors(observer.actor, "deafened") IN
    IF EagerThrows(acc) THEN "throws" ELSE ToStr(AnyTruthy(acc))

\* The first half of isInvisibleTo: const hasInvisible = ... || ... || ... || ...
hasInvisible(target) ==
    LET acc == Accessors(target.actor, "invisible") IN
    IF EagerThrows(acc) THEN "throws" ELSE ToStr(AnyTruthy(acc))

\* observer.actor?.perception?.senses?.has?.('see-invisibility') ||
\* observer.actor?.system?.perception?.senses?.['see-invisibility']
canSeeInvisible(observer) == Truthy(observer.senseHas) \/ Truthy(observer.senseField)

\* canSeeInvisible consulting only the first accessor shape.
isInvisibleTo_oneShape(observer, target) ==
    LET h == hasInvisible(target) IN
    IF h = "throws" THEN "throws"
    ELSE IF h = "true" THEN ToStr(~Truthy(observer.senseHas))
    ELSE "false"

isInvisibleTo(observer, target) ==
    LET h == hasInvisible(target) IN
    IF h = "throws" THEN "throws"
    ELSE IF h = "true" THEN ToStr(~canSeeInvisible(observer))
    ELSE "false"

----------------------------------------------------------------------------
(* The flag store of the token documents, as the host applies updates.     *)

\* A flags object with no keys.
Empty == [o \in {} |-> TRUE]

\* The 'pf2e-visioner'.invisibility namespace of a document that has none.
NoFlags == [set |-> FALSE, entries |-> Empty]

NoOp == [kind |-> "none", token |-> NoToken, value |-> Empty]

\* token.document.setFlag('pf2e-visioner', 'invisibility', value)
setFlag(token, value) == [kind |-> "set", token |-> token, value |-> value]

\* token.document.unsetFlag('pf2e-visioner', 'invisibility')
unsetFlag(token) == [kind |-> "unset", token |-> token, value |-> Empty]

\* The host applying one issued update to the documents.
Apply(fl, op) ==
    CASE op.kind = "set" -> [fl EXCEPT ![op.token] = [set |-> TRUE, entries |-> op.value]]
      [] op.kind = "unset" -> [fl EXCEPT ![op.token] = NoFlags]
      [] OTHER -> fl

----------------------------------------------------------------------------
(* getInvisibilityState                                                    *)

\* target.document.flags?.['pf2e-visioner']?.invisibility || {}
invisibilityFlagsOf(fl, target) == IF fl[target].set THEN fl[target].entries ELSE Empty

\* invisibilityFlags[observerId]?.wasVisible
wasVisibleWhenInvisible(fl, observer, target) ==
    LET invisibilityFlags == invisibilityFlagsOf(fl, target) IN
    observer \in DOMAIN invisibilityFlags /\ invisibilityFlags[observer]

\* getInvisibilityState that never reads the stored record.
getInvisibilityState_noRecord(fl, observer, target, sneak, canSeeNormally) ==
    IF observer = NoToken \/ target = NoToken THEN "undetected"
    ELSE IF canSeeNormally THEN (IF sneak THEN "undetected" ELSE "hidden")
    ELSE "undetected"

\* `sneak` is the value hasSneakOverride(observer, target) resolves to.
getInvisibilityState(fl, observer, target, sneak, canSeeNormally) ==
    IF observer = NoToken \/ target = NoToken THEN "undetected"
    ELSE IF canSeeNormally THEN (IF sneak THEN "undetected" ELSE "hidden")
    ELSE IF wasVisibleWhenInvisible(fl, observer, target)
         THEN (IF sneak THEN "undetected" ELSE "hidden")
    ELSE "undetected"

----------------------------------------------------------------------------
(* handleInvisibilityChange and its two routines                           *)

\* canvas.tokens.placeables, in scene order.
placeables == <<"t1", "t2", "t3", "t4">>

\* The states a visibility map holds, and "absent" for a missing key.
VisibilityStates == {"observed", "concealed", "hidden", "undetected"}

\* visibilityMap[observerId] || 'observed'
currentVisibility(visibilityMap, observerId) ==
    IF visibilityMap[observerId] = "absent" THEN "observed" ELSE visibilityMap[observerId]

\* The keys the loop over canvas.tokens.placeables collects.
wasVisibleKeys(token, visibilityMap) ==
    {o \in Tokens : /\ o # token
                    /\ ActorOf(o) # NoActor
                    /\ currentVisibility(visibilityMap, o) \in {"observed", "concealed"}}

\* The recording routine treating a missing map entry as not visible.
recordVisibilityBeforeInvisibility_noDefault(token, visibilityMap) ==
    LET keys == {o \in wasVisibleKeys(token, visibilityMap) : visibilityMap[o] # "absent"} IN
    IF keys # {} THEN setFlag(token, [o \in keys |-> TRUE]) ELSE NoOp

\* #recordVisibilityBeforeInvisibility: the host call it issues, if any.
recordVisibilityBeforeInvisibility(token, visibilityMap) ==
    LET invisibilityFlags == [o \in wasVisibleKeys(token, visibilityMap) |-> TRUE] IN
    IF DOMAIN invisibilityFlags # {} THEN setFlag(token, invisibilityFlags) ELSE NoOp

\* A clearing routine that issues nothing.
clearInvisibilityFlagsPriv_skip(token) == NoOp

\* #clearInvisibilityFlags
clearInvisibilityFlagsPriv(token) == unsetFlag(token)

\* A public clear that writes an empty record instead of removing the namespace.
clearInvisibilityFlags_empty(token) == setFlag(token, Empty)

\* clearInvisibilityFlags (public)
clearInvisibilityFlags(token) == clearInvisibilityFlagsPriv(token)

\* setInvisibilityFlags (public)
setInvisibilityFlags(token, value) == setFlag(token, value)

\* The handler's own check: hasCondition || system...active || conditions.has,
\* short-circuiting, with no scan of the conditions collection.
hasInvisibility(actor) ==
    LET acc == Accessors(actor, "invisible") IN
    IF acc.hc = "throws" THEN "throws"
    ELSE IF Truthy(acc.hc) \/ Truthy(acc.sys) THEN "true"
    ELSE IF acc.has = "throws" THEN "throws"
    ELSE ToStr(Truthy(acc.has))

\* The handler's check taken the wrong way round.
handleToken_inverted(actor, token, visibilityMap) ==
    IF hasInvisibility(actor) = "true"
    THEN clearInvisibilityFlagsPriv(token)
    ELSE recordVisibilityBeforeInvisibility(token, visibilityMap)

\* One iteration of the handler's loop: the host call it issues for `token`.
handleToken(actor, token, visibilityMap) ==
    IF hasInvisibility(actor) = "true"
    THEN recordVisibilityBeforeInvisibility(token, visibilityMap)
    ELSE clearInvisibilityFlagsPriv(token)

\* tokens = canvas.tokens.placeables.filter((token) => token.actor?.id === actor.id)
tokensOf(actorId) == SelectSeq(placeables, LAMBDA t : ActorOf(t) = actorId)

ToSet(seq) == {seq[i] : i \in 1..Len(seq)}

\* The host calls of a whole run, one entry per token in order (NoOp where the
\* iteration issues none); maps[t] is what getVisibilityMap(t) returns.
RECURSIVE handlerOps(_, _, _)
handlerOps(actor, toks, maps) ==
    IF toks = <<>> THEN <<>>
    ELSE <<handleToken(actor, Head(toks), maps[Head(toks)])>>
         \o handlerOps(actor, Tail(toks), maps)

RECURSIVE ApplyAll(_, _)
ApplyAll(fl, ops) == IF ops = <<>> THEN fl ELSE ApplyAll(Apply(fl, Head(ops)), Tail(ops))

----------------------------------------------------------------------------
(* Inputs of the sequential specification                                  *)

MapValues == VisibilityStates \cup {"absent"}

\* What getVisibilityMap(token) may return. The token's own id is present and
\* "observed" (the loop must skip it), and so is the actorless t4; the other
\* actor's token takes every value, a sibling token three of them.
MapsFor(token) ==
    {m \in [Tokens -> MapValues] :
        /\ m[token] = "observed"
        /\ m["t4"] = "observed"
        /\ \A o \in Tokens \ {token, "t4"} :
             ActorOf(o) = ActorOf(token) => m[o] \in {"absent", "concealed", "hidden"}}

\* The maps of the second placement of an actor: nobody, everybody, one observer.
SiblingMapsFor(token) ==
    {m \in MapsFor(token) :
        \/ \A o \in Tokens \ {token, "t4"} : m[o] = "hidden"
        \/ \A o \in Tokens \ {token, "t4"} : m[o] = "absent"
        \/ \A o \in Tokens \ {token, "t4"} :
             m[o] = IF ActorOf(o) = ActorOf(token) THEN "hidden" ELSE "concealed"}

Shape(hc, sys, has, coll) ==
    [cond |-> "invisible",
     acc |-> [hc |-> ToStr(hc), sys |-> ToStr(sys), has |-> ToStr(has), coll |-> ToStr(coll)]]

NotInvisible == Shape(FALSE, FALSE, FALSE, FALSE)

\* An actor carrying the invisible condition, as reported by one accessor path
\* alone: the predicate, conditions.has, or the conditions collection.
InvisibleShapes ==
    {Shape(TRUE, FALSE, FALSE, FALSE), Shape(FALSE, FALSE, TRUE, FALSE),
     Shape(FALSE, FALSE, FALSE, TRUE)}

ActorStates(a) ==
    IF a = "a1" THEN InvisibleShapes \cup {NotInvisible}
    ELSE {Shape(TRUE, FALSE, FALSE, FALSE), NotInvisible}

\* The flags objects handed to setInvisibilityFlags.
FlagInputs == {Empty, [k \in {"t2"} |-> TRUE], [k \in {"t3"} |-> FALSE]}

\* The tokens setInvisibilityFlags and clearInvisibilityFlags are called on.
UtilityTokens == {"t1", "t3"}

Idle ==
    [op |-> "none", actor |-> NoActor, token |-> NoToken, observer |-> NoToken,
     maps |-> Empty, ops |-> <<>>, prior |-> {}, sneak |-> FALSE, canSee |-> FALSE,
     result |-> "none"]

NoProbe == [actor |-> [cond |-> "none", acc |-> AllAbsent],
            senseHas |-> "absent", senseField |-> "absent"]

NoResults == [blinded |-> "none", dazzled |-> "none", deafened |-> "none",
              invisible |-> "none", invisibleTo |-> "none"]

Unused == /\ probeIn = NoProbe
          /\ probeOut = NoResults
          /\ runs = <<>>
          /\ queue = <<>>
          /\ changes = 0

Init ==
    /\ cond = [a \in Actors |-> NotInvisible]
    /\ flags = [t \in Tokens |-> NoFlags]
    /\ last = Idle
    /\ Unused

----------------------------------------------------------------------------
(* Operations, each run to completion                                      *)

\* The host applies or removes a condition on an actor (no handler run yet).
SetCondition(a, shape) ==
    /\ cond[a] # shape
    /\ cond' = [cond EXCEPT ![a] = shape]
    /\ last' = [Idle EXCEPT !.op = "condition", !.actor = a]
    /\ UNCHANGED <<flags, probeIn, probeOut, runs, queue, changes>>

\* The maps getVisibilityMap returns during one run: one per token in the
\* recording branch, none in the clearing branch.
RecordingMaps ==
    [a1 |-> {[t \in {"t1", "t2"} |-> IF t = "t1" THEN m1 ELSE m2] :
                m1 \in MapsFor("t1"), m2 \in SiblingMapsFor("t2")},
     a2 |-> {[t \in {"t3"} |-> m] : m \in MapsFor("t3")}]

\* The same with three maps per token.
FewMaps ==
    [a1 |-> {[t \in {"t1", "t2"} |-> IF t = "t1" THEN m1 ELSE m2] :
                m1 \in SiblingMapsFor("t1"), m2 \in SiblingMapsFor("t2")},
     a2 |-> {[t \in {"t3"} |-> m] : m \in SiblingMapsFor("t3")}]

MapChoices(pool, a, actor) ==
    IF hasInvisibility(actor) # "true"
    THEN {[t \in ToSet(tokensOf(a)) |-> [o \in Tokens |-> "absent"]]}
    ELSE pool[a]

\* handleInvisibilityChange(actor), awaited to completion.
HandleWith(pool, a) ==
    /\ hasInvisibility(cond[a]) # "throws"
    /\ \E maps \in MapChoices(pool, a, cond[a]) :
         LET ops == handlerOps(cond[a], tokensOf(a), maps) IN
         /\ flags' = ApplyAll(flags, ops)
         /\ last' = [Idle EXCEPT !.op = "handle", !.actor = a, !.maps = maps,
                                 !.ops = ops,
                                 !.prior = {t \in ToSet(tokensOf(a)) : flags[t].set}]
    /\ UNCHANGED <<cond, probeIn, probeOut, runs, queue, changes>>

HandleInvisibilityChange(a) == HandleWith(RecordingMaps, a)

\* clearInvisibilityFlags(token), awaited.
ClearInvisibilityFlags(t) ==
    /\ flags' = Apply(flags, clearInvisibilityFlags(t))
    /\ last' = [Idle EXCEPT !.op = "clear", !.token = t,
                            !.prior = IF flags[t].set THEN {t} ELSE {}]
    /\ UNCHANGED <<cond, probeIn, probeOut, runs, queue, changes>>

\* setInvisibilityFlags(token, value), awaited.
SetInvisibilityFlags(t, value) ==
    /\ flags' = Apply(flags, setInvisibilityFlags(t, value))
    /\ last' = [Idle EXCEPT !.op = "set", !.token = t]
    /\ UNCHANGED <<cond, probeIn, probeOut, runs, queue, changes>>

\* getInvisibilityState(observer, target, hasSneakOverride, canSeeNormally), awaited.
GetInvisibilityState(o, t, sneak, canSee) ==
    /\ last' = [Idle EXCEPT !.op = "state", !.observer = o, !.token = t,
                            !.sneak = sneak, !.canSee = canSee,
                            !.result = getInvisibilityState(flags, o, t, sneak, canSee)]
    /\ UNCHANGED <<cond, flags, probeIn, probeOut, runs, queue, changes>>

Next ==
    \/ \E a \in Actors : \E shape \in ActorStates(a) : SetCondition(a, shape)
    \/ \E a \in Actors : HandleInvisibilityChange(a)
    \/ \E t \in UtilityTokens : ClearInvisibilityFlags(t)
    \/ \E t \in UtilityTokens : \E value \in FlagInputs : SetInvisibilityFlags(t, value)

Spec == Init /\ [][Next]_vars

\* The resolver called between direct writes of the record and handler runs.
NextState ==
    \/ \E a \in Actors : \E shape \in {Shape(TRUE, FALSE, FALSE, FALSE), NotInvisible} :
         SetCondition(a, shape)
    \/ HandleInvisibilityChange("a2")
    \/ \E t \in UtilityTokens : ClearInvisibilityFlags(t)
    \/ \E t \in UtilityTokens : \E value \in FlagInputs : SetInvisibilityFlags(t, value)
    \/ \E o \in Tokens \cup {NoToken} : \E t \in Tokens \cup {NoToken} :
         \E sneak \in BOOLEAN : \E canSee \in BOOLEAN :
           GetInvisibilityState(o, t, sneak, canSee)

SpecState == Init /\ [][NextState]_vars

----------------------------------------------------------------------------
(* The condition changing, each change followed by a completed handler run *)

LifecycleShapes(a) ==
    IF a = "a1" THEN InvisibleShapes \cup {Shape(FALSE, TRUE, FALSE, FALSE),
                                          Shape(TRUE, TRUE, TRUE, TRUE)}
    ELSE {Shape(TRUE, FALSE, FALSE, FALSE)}

\* The condition change itself and the handler run that follows it.
ChangeAndHandle(a, shape, what) ==
    /\ cond' = [cond EXCEPT ![a] = shape]
    /\ hasInvisibility(shape) # "throws"
    /\ \E maps \in MapChoices(FewMaps, a, shape) :
         LET ops == handlerOps(shape, tokensOf(a), maps) IN
         /\ flags' = ApplyAll(flags, ops)
         /\ last' = [Idle EXCEPT !.op = what, !.actor = a, !.maps = maps, !.ops = ops,
                                 !.prior = {t \in ToSet(tokensOf(a)) : flags[t].set}]
    /\ UNCHANGED <<probeIn, probeOut, runs, queue, changes>>

ApplyInvisible(a, shape) ==
    /\ cond[a] # shape
    /\ ChangeAndHandle(a, shape, "applied")

RemoveInvisible(a) ==
    /\ cond[a] # NotInvisible
    /\ ChangeAndHandle(a, NotInvisible, "removed")

\* A further run with no change of the invisible condition before it.
HandleAgain(a) == HandleWith(FewMaps, a)

NextLifecycle ==
    \/ \E a \in Actors : \E shape \in LifecycleShapes(a) : ApplyInvisible(a, shape)
    \/ \E a \in Actors : RemoveInvisible(a)
    \/ \E a \in Actors : HandleAgain(a)

SpecLifecycle == Init /\ [][NextLifecycle]_vars

----------------------------------------------------------------------------
(* The probes as functions of what the host's accessors answer             *)

CallValues == {"absent", "false", "true", "throws"}

FieldValues == {"absent", "false", "true"}

\* With no actor.conditions object neither conditions.has nor the scan answers.
ProbeAccessors ==
    {acc \in [hc : CallValues, sys : FieldValues, has : CallValues, coll : CallValues] :
        acc.coll = "absent" => acc.has = "absent"}

ConditionNames == {"blinded", "dazzled", "deafened", "invisible"}

ProbeInputs ==
    {[actor |-> [cond |-> name, acc |-> acc], senseHas |-> s1, senseField |-> s2] :
        name \in ConditionNames, acc \in ProbeAccessors,
        s1 \in FieldValues, s2 \in FieldValues}

InitProbe ==
    /\ cond = [a \in Actors |-> NotInvisible]
    /\ flags = [t \in Tokens |-> NoFlags]
    /\ last = Idle
    /\ probeIn \in ProbeInputs
    /\ probeOut = NoResults
    /\ runs = <<>>
    /\ queue = <<>>
    /\ changes = 0

\* Each probe called on the same observer and target.
RunProbes ==
    /\ probeOut = NoResults
    /\ probeOut' = [blinded |-> isBlinded(probeIn),
                    dazzled |-> isDazzled(probeIn),
                    deafened |-> isDeafened(probeIn),
                    invisible |-> hasInvisible(probeIn),
                    invisibleTo |-> isInvisibleTo(probeIn, probeIn)]
    /\ UNCHANGED <<cond, flags, last, probeIn, runs, queue, changes>>

\* The host changes what one sense accessor answers between calls.
ChangeSenses ==
    /\ probeOut # NoResults
    /\ \E s1 \in FieldValues, s2 \in FieldValues :
         /\ <<s1, s2>> # <<probeIn.senseHas, probeIn.senseField>>
         /\ probeIn' = [probeIn EXCEPT !.senseHas = s1, !.senseField = s2]
    /\ probeOut' = NoResults
    /\ UNCHANGED <<cond, flags, last, runs, queue, changes>>

NextProbe == RunProbes \/ ChangeSenses

SpecProbe == InitProbe /\ [][NextProbe]_vars

----------------------------------------------------------------------------
(* Overlapping runs of handleInvisibilityChange for a1                     *)
(* Each await is a point where another run, or the host, may act. A run    *)
(* issues its setFlag/unsetFlag in the same synchronous stretch as the     *)
(* check that chose it, and resumes once the host has applied the update.  *)

MaxChanges == 3

\* The visibility maps of these runs: every observer sees the token, or none.
OverlapMaps == {[o \in Tokens |-> v] : v \in {"observed", "hidden"}}

\* The actor a run hands to an iteration's check: the parameter `actor` is
\* the live document, read inside the loop.
probedActor_atCall(live, atCall) == atCall

probedActor(live, atCall) == live

Finished(run) == run.toks = <<>> /\ ~run.awaiting

InitOverlap ==
    /\ cond = [a \in Actors |-> NotInvisible]
    /\ flags = [t \in Tokens |-> NoFlags]
    /\ last = Idle
    /\ probeIn = NoProbe
    /\ probeOut = NoResults
    /\ runs = <<>>
    /\ queue = <<>>
    /\ changes = 0

\* The invisible condition is applied to or removed from a1, and the change
\* calls handleInvisibilityChange(a1).
Change ==
    /\ changes < MaxChanges
    /\ changes' = changes + 1
    /\ LET shape == IF cond["a1"] = NotInvisible
                    THEN Shape(TRUE, FALSE, FALSE, FALSE) ELSE NotInvisible IN
       /\ cond' = [cond EXCEPT !["a1"] = shape]
       /\ runs' = Append(runs, [toks |-> tokensOf("a1"), awaiting |-> FALSE,
                                atCall |-> shape])
    /\ UNCHANGED <<flags, last, probeIn, probeOut, queue>>

\* History for the claims: an older run acted after a newer one had started,
\* and the tokens that have carried a record.
Note(i, fl) ==
    [last EXCEPT !.result = IF i < Len(runs) THEN "overlapped" ELSE @,
                 !.prior = @ \cup {t \in Tokens : fl[t].set}]

\* One iteration of run i up to its await.
RunStep(i) ==
    /\ runs[i].toks # <<>>
    /\ ~runs[i].awaiting
    /\ \E m \in OverlapMaps :
         LET token == Head(runs[i].toks)
             op == handleToken(probedActor(cond["a1"], runs[i].atCall), token, m) IN
         IF op.kind = "none"
         THEN /\ runs' = [runs EXCEPT ![i].toks = Tail(@)]
              /\ queue' = queue
         ELSE /\ runs' = [runs EXCEPT ![i].awaiting = TRUE]
              /\ queue' = Append(queue, [op |-> op, run |-> i])
    /\ last' = Note(i, flags)
    /\ UNCHANGED <<cond, flags, probeIn, probeOut, changes>>

\* The host applies the oldest issued update and the run awaiting it resumes.
HostApply ==
    /\ queue # <<>>
    /\ LET u == Head(queue) IN
       /\ flags' = Apply(flags, u.op)
       /\ runs' = [runs EXCEPT ![u.run].awaiting = FALSE, ![u.run].toks = Tail(@)]
       /\ last' = Note(u.run, flags')
    /\ queue' = Tail(queue)
    /\ UNCHANGED <<cond, probeIn, probeOut, changes>>

NextOverlap ==
    \/ Change
    \/ \E i \in 1..Len(runs) : RunStep(i)
    \/ HostApply

SpecOverlap == InitOverlap /\ [][NextOverlap]_vars

----------------------------------------------------------------------------
(* Properties                                                              *)

SneakBranch(sneak) == IF sneak THEN "undetected" ELSE "hidden"

\* C1: getInvisibilityState follows the decision table, first match wins: a
\* missing observer or target id gives 'undetected'; canSeeNormally gives
\* 'undetected' or 'hidden' by the sneak predicate; otherwise a stored
\* wasVisible: true for this observer gives the same two-way branch, and no
\* stored entry for this observer gives 'undetected'. The result is always
\* 'hidden' or 'undetected'.
C1_DecisionTable ==
    last.op = "state" =>
        LET o == last.observer
            t == last.token
            r == last.result IN
        /\ r \in {"hidden", "undetected"}
        /\ (o = NoToken \/ t = NoToken) => r = "undetected"
        /\ (o # NoToken /\ t # NoToken) =>
             LET entries == flags[t].entries
                 stored == flags[t].set /\ o \in DOMAIN entries IN
             /\ last.canSee => r = SneakBranch(last.sneak)
             /\ (~last.canSee /\ stored /\ entries[o]) => r = SneakBranch(last.sneak)
             /\ (~last.canSee /\ ~stored) => r = "undetected"

\* C1's case: an observer that cannot see normally, recorded as having seen
\* the target, with no sneak override, resolves to 'hidden'.
C1_Witness ==
    /\ last.op = "state"
    /\ last.observer = "t2" /\ last.token = "t1"
    /\ ~last.canSee /\ ~last.sneak
    /\ flags["t1"].set /\ "t2" \in DOMAIN flags["t1"].entries
    /\ last.result = "hidden"

\* The handler took the recording branch in its last run.
Recorded == last.op = "handle" /\ hasInvisibility(cond[last.actor]) = "true"

\* The host call the last run issued for token t (NoOp when it issued none).
OpFor(t) ==
    LET toks == tokensOf(last.actor)
        i == CHOOSE j \in 1..Len(toks) : toks[j] = t IN
    last.ops[i]

\* The record on token t has exactly the keys `keys`, each {wasVisible: true}.
HasRecord(t, keys) ==
    /\ flags[t].set
    /\ DOMAIN flags[t].entries = keys
    /\ \A o \in keys : flags[t].entries[o]

\* The other tokens with a live actor whose entry in visibilityMap is in `states`.
ObserversIn(t, visibilityMap, states) ==
    {o \in Tokens \ {t} : ActorOf(o) # NoActor /\ visibilityMap[o] \in states}

\* C2 as stated: after a run of the handler that found the actor invisible, each
\* of its tokens carries a record keyed by exactly the other live-actor tokens
\* whose recorded state was 'observed' or 'concealed', every entry
\* {wasVisible: true}; with no such observer no flag write occurred.
C2_Original ==
    Recorded =>
        \A t \in ToSet(tokensOf(last.actor)) :
            LET keys == ObserversIn(t, last.maps[t], {"observed", "concealed"}) IN
            IF keys = {} THEN OpFor(t).kind = "none" ELSE HasRecord(t, keys)

\* C2 amended: the keys are the other live-actor tokens whose entry in the
\* visibility map is 'observed', 'concealed' or missing (a missing entry is
\* read as 'observed'); tokens recorded 'hidden' or 'undetected' and tokens
\* without an actor are never keys; with no such observer no write occurred.
C2_Amended ==
    Recorded =>
        \A t \in ToSet(tokensOf(last.actor)) :
            LET keys == ObserversIn(t, last.maps[t], {"observed", "concealed", "absent"}) IN
            /\ IF keys = {} THEN OpFor(t).kind = "none" ELSE HasRecord(t, keys)
            /\ flags[t].set /\ OpFor(t).kind # "none" =>
                 \A o \in DOMAIN flags[t].entries :
                     /\ ActorOf(o) # NoActor
                     /\ last.maps[t][o] \notin {"hidden", "undetected"}

\* C2's case: a1 turned invisible with two tokens; t1 was concealed from t3
\* and hidden from t2, t2 was seen by nobody and got no write.
C2_Witness ==
    /\ Recorded
    /\ last.actor = "a1"
    /\ last.maps["t1"]["t3"] = "concealed" /\ last.maps["t1"]["t2"] = "hidden"
    /\ HasRecord("t1", {"t3"})
    /\ OpFor("t2").kind = "none"

\* C3: after a completed run of the handler for an actor without the invisible
\* condition (by every accessor path), no token bound to that actor has the
\* invisibility namespace, whatever it held before.
C3_ClearedOnRemoval ==
    (last.op = "handle" /\ hasInvisible([actor |-> cond[last.actor]]) = "false") =>
        \A t \in ToSet(tokensOf(last.actor)) : flags[t] = NoFlags

\* C3's case: both tokens of a1 carried a record when the run started.
C3_Witness ==
    /\ last.op = "handle"
    /\ last.actor = "a1"
    /\ hasInvisible([actor |-> cond["a1"]]) = "false"
    /\ last.prior = {"t1", "t2"}
    /\ flags["t1"] = NoFlags /\ flags["t2"] = NoFlags

\* C7: clearInvisibilityFlags(token) leaves the token's namespace absent and
\* every other token's flags as they were, and a second call right after it
\* leaves that same state.
C7_ClearIdempotent ==
    [][last'.op = "clear" =>
         /\ flags' = [flags EXCEPT ![last'.token] = NoFlags]
         /\ Apply(flags', clearInvisibilityFlags(last'.token)) = flags']_vars

\* C7's case: a clear of a token that carried a record.
C7_Witness ==
    /\ last.op = "clear"
    /\ last.prior = {last.token}
    /\ flags[last.token] = NoFlags
    /\ \E t \in Tokens \ {last.token} : flags[t].set

\* C8 as stated: the handler takes the recording branch exactly when the
\* invisible-condition probe of isInvisibleTo reports the condition, and the
\* clearing branch otherwise.
C8_SameProbeAsIsInvisibleTo ==
    last.op = "handle" =>
        \A i \in 1..Len(last.ops) :
            (last.ops[i].kind # "unset") <=> (hasInvisible([actor |-> cond[last.actor]]) = "true")

\* C9 as stated: after a run for an invisible actor whose token already carried
\* a record, the token's record is the fresh recompute from the current
\* visibility map alone: its keys are the observers that qualify now.
C9_FreshRecompute ==
    Recorded =>
        \A t \in last.prior :
            LET entries == invisibilityFlagsOf(flags, t) IN
            /\ DOMAIN entries = wasVisibleKeys(t, last.maps[t])
            /\ \A o \in DOMAIN entries : entries[o]

\* C6: a token carries a record only while its actor has the invisible
\* condition, and after a removal and its handler run the actor's tokens carry
\* none.
C6_RecordOnlyWhileInvisible ==
    /\ \A t \in Tokens :
         flags[t].set =>
            /\ ActorOf(t) # NoActor
            /\ hasInvisible([actor |-> cond[ActorOf(t)]]) = "true"
    /\ last.op = "removed" =>
         /\ cond[last.actor] = NotInvisible
         /\ \A t \in ToSet(tokensOf(last.actor)) : flags[t] = NoFlags

\* C6's case: the condition was removed from a1 while its tokens carried records.
C6_Witness ==
    /\ last.op = "removed"
    /\ last.actor = "a1"
    /\ last.prior = {"t1", "t2"}
    /\ flags["t1"] = NoFlags /\ flags["t2"] = NoFlags

AnyPathTrue(acc) == \E p \in DOMAIN acc : acc[p] = "true"

NoPathTrueOrThrowing(acc) == \A p \in DOMAIN acc : acc[p] \in {"absent", "false"}

ProbeResult(name) ==
    CASE name = "blinded" -> probeOut.blinded
      [] name = "dazzled" -> probeOut.dazzled
      [] name = "deafened" -> probeOut.deafened
      [] OTHER -> probeOut.invisible

\* C4 as stated: a probe is negative when every accessor path is false or
\* absent, positive when any path reports true whatever the others do, and it
\* never throws.
C4_Original ==
    probeOut # NoResults =>
        \A name \in ConditionNames :
            LET acc == Accessors(probeIn.actor, name) IN
            /\ NoPathTrueOrThrowing(acc) => ProbeResult(name) = "false"
            /\ AnyPathTrue(acc) => ProbeResult(name) = "true"
            /\ ProbeResult(name) # "throws"

\* C4 amended: a probe is negative when every path is false or absent; it
\* throws exactly when the hasCondition predicate or conditions.has throws;
\* otherwise it is positive when any path reports true, whatever the others
\* report and whether or not the scan of the conditions collection throws.
C4_Amended ==
    probeOut # NoResults =>
        \A name \in ConditionNames :
            LET acc == Accessors(probeIn.actor, name)
                r == ProbeResult(name) IN
            /\ NoPathTrueOrThrowing(acc) => r = "false"
            /\ (r = "throws") <=> (acc.hc = "throws" \/ acc.has = "throws")
            /\ (r # "throws" /\ AnyPathTrue(acc)) => r = "true"
            /\ (r # "throws" /\ ~AnyPathTrue(acc)) => r = "false"

\* C4's case: isBlinded is positive on one path while the collection scan throws.
C4_Witness ==
    /\ probeOut.blinded = "true"
    /\ probeIn.actor.acc.coll = "throws"
    /\ probeIn.actor.acc.hc = "true"
    /\ probeIn.actor.acc.sys # "true" /\ probeIn.actor.acc.has # "true"

\* C5: isInvisibleTo is true exactly when some accessor path reports the
\* target invisible and neither sense accessor reports 'see-invisibility';
\* it is false when the target is not invisible, whatever the senses, and
\* false when the target is invisible and either shape reports the sense.
\* (Stated of the calls that return; C4 says which calls throw.)
C5_InvisibleTo ==
    (probeOut # NoResults /\ probeOut.invisibleTo # "throws") =>
        LET acc == Accessors(probeIn.actor, "invisible")
            sees == probeIn.senseHas = "true" \/ probeIn.senseField = "true" IN
        /\ probeOut.invisibleTo \in {"true", "false"}
        /\ (probeOut.invisibleTo = "true") <=> (AnyPathTrue(acc) /\ ~sees)

\* C5's case: an invisible target, and the sense reported by the second shape only.
C5_Witness ==
    /\ probeOut.invisible = "true"
    /\ probeIn.senseHas = "false" /\ probeIn.senseField = "true"
    /\ probeOut.invisibleTo = "false"

RunsComplete == queue = <<>> /\ \A i \in 1..Len(runs) : Finished(runs[i])

\* C10: once every overlapping run has completed, every issued update has been
\* applied and the actor is not invisible, no token bound to the actor carries
\* a record.
C10_NoStaleRecord ==
    (RunsComplete /\ hasInvisible([actor |-> cond["a1"]]) = "false") =>
        \A t \in ToSet(tokensOf("a1")) : flags[t] = NoFlags

\* C10's case: applied then removed, the first run still acting after the
\* second had started, a record having been written on the way.
C10_Witness ==
    /\ RunsComplete
    /\ Len(runs) >= 2
    /\ cond["a1"] = NotInvisible
    /\ last.result = "overlapped"
    /\ last.prior # {}
    /\ \A t \in ToSet(tokensOf("a1")) : flags[t] = NoFlags

====
